---- MODULE Spec2Model ----
(***************************************************************************)
(* The DynamoDB storage adapter of aws-events-platform: the event stack    *)
(* (createDDBStack), the stack registry (ddbStore) and the view cache      *)
(* (ddbViewCache).  Each process is one caller making one call; a call is  *)
(* split at its awaits, so that the store's steps of different callers     *)
(* interleave.  The store itself (DynamoDB) evaluates each request in one  *)
(* step.                                                                   *)
(***************************************************************************)
EXTENDS Integers, Sequences, FiniteSets, TLC

VARIABLES eventsTable, viewsTable, sharedDBB, stacks, pc, call, ret

vars == <<eventsTable, viewsTable, sharedDBB, stacks, pc, call, ret>>

(***************************************************************************)
(* Bounds and input sets.                                                  *)
(***************************************************************************)
\* Explicit ids offered to commitEvent range over -1..MaxId.
MaxId == 2

\* eventIds of compiled views range over 0..MaxEventId.
MaxEventId == 1

\* One process per call.  The payload a process writes is its own name, so
\* every call carries a payload of its own and an overwrite is visible.
Procs == {"w1", "w2", "w3"}

\* The processes that use a view cache.
CacheProcs == {"w1", "w2"}

\* The processes that may read a stack (getEvent, slice) instead of writing.
Readers == {"w3"}

\* (stackSet, stackName) identities; strings that go through name() are
\* sequences of characters.  The first two identities differ and share a name().
Identities == {<<<<"a">>, <<"b", "|", "c">>>>, <<<<"a", "|", "b">>, <<"c">>>>, <<<<"a">>, <<"c">>>>}

\* A field a record does not carry.
Absent == "absent"

(***************************************************************************)
(* ddbStore: name                                                          *)
(***************************************************************************)
name(stackSet, stack) == stackSet \o <<"|">> \o stack

Namespaces == {name(i[1], i[2]) : i \in Identities}

\* The options createStack hands to createDDBStack for an identity.
StackOptions == {[namespace |-> ns] : ns \in Namespaces}

(***************************************************************************)
(* The events table: a set of items keyed by (namespace, id).              *)
(***************************************************************************)
ItemsAt(table, ns, id) == {it \in table : it.namespace = ns /\ it.id = id}

ItemsOf(table, ns) == {it \in table : it.namespace = ns}

IdsOf(table, ns) == {it.id : it \in ItemsOf(table, ns)}

\* attribute_exists(#ns) / attribute_not_exists(#ns) on the item at a key
AttributeExists(table, ns, id) == ItemsAt(table, ns, id) # {}

\* The exceptions a store call can raise without having evaluated the
\* request: one with a message, one with none.
TransportErrors == {[hasMessage |-> TRUE, message |-> <<"ThrottlingException">>], [hasMessage |-> FALSE, message |-> <<>>]}

NoError == [hasMessage |-> FALSE, message |-> <<"none">>]

(***************************************************************************)
(* commitEvent                                                             *)
(***************************************************************************)
\* const event = { ...ev, namespace: options.namespace }
EventOf(options, ev) == [namespace |-> options.namespace, id |-> ev.id, data |-> ev.data]

PutItemNoCondition(event) == [op |-> "Put", namespace |-> event.namespace, id |-> event.id, data |-> event.data, cond |-> "none"]

\* transactItems[0]: the Put with attribute_not_exists(#ns)
PutItem(event) == [op |-> "Put", namespace |-> event.namespace, id |-> event.id, data |-> event.data, cond |-> "attribute_not_exists"]

\* the ConditionCheck on (namespace, id - 1) with attribute_exists(#ns)
PredecessorCheck(event) == [op |-> "ConditionCheck", namespace |-> event.namespace, id |-> event.id - 1, data |-> event.data, cond |-> "attribute_exists"]

NoPredecessorCheck(event) == FALSE

\* if (event.id !== 0) transactItems.push(...)
NeedsPredecessorCheck(event) == event.id # 0

TransactItems(event) ==
    IF NeedsPredecessorCheck(event)
        THEN <<PutItem(event), PredecessorCheck(event)>>
        ELSE <<PutItem(event)>>

\* The store's verdict on one item of a transaction.
ConditionHolds(table, item) ==
    CASE item.cond = "attribute_not_exists" -> ~AttributeExists(table, item.namespace, item.id)
      [] item.cond = "attribute_exists" -> AttributeExists(table, item.namespace, item.id)
      [] OTHER -> TRUE

CancellationReasons(table, items) ==
    [i \in 1..Len(items) |-> IF ConditionHolds(table, items[i]) THEN "None" ELSE "ConditionalCheckFailed"]

Cancelled(table, items) == \E i \in 1..Len(items) : ~ConditionHolds(table, items[i])

\* The items a transaction puts replace whatever is stored at their keys.
ApplyPuts(table, items) ==
    LET puts == {items[i] : i \in {j \in 1..Len(items) : items[j].op = "Put"}}
        keys == {<<p.namespace, p.id>> : p \in puts}
    IN  {it \in table : <<it.namespace, it.id>> \notin keys}
            \cup {[namespace |-> p.namespace, id |-> p.id, data |-> p.data] : p \in puts}

NonAtomicTable(table, items) ==
    ApplyPuts(table, SelectSeq(items, LAMBDA it : ConditionHolds(table, it)))

\* transactWrite: all conditions hold and every put is applied, or none is.
TransactWriteTable(table, items) ==
    IF Cancelled(table, items) THEN table ELSE ApplyPuts(table, items)

RECURSIVE JoinReasons(_)
JoinReasons(reasons) ==
    IF Len(reasons) = 0 THEN <<>>
    ELSE IF Len(reasons) = 1 THEN <<reasons[1]>>
    ELSE <<reasons[1], ", ">> \o JoinReasons(Tail(reasons))

\* The message of the store's TransactionCanceledException.
CancelMessage(reasons) ==
    <<"Transaction cancelled, please refer cancellation reasons for specific reasons ", "[">>
        \o JoinReasons(reasons) \o <<"]">>

TransactionCanceled(table, items) ==
    [hasMessage |-> TRUE, message |-> CancelMessage(CancellationReasons(table, items))]

\* String.prototype.indexOf on token sequences: first position or -1.
indexOf(s, pat) ==
    LET hits == {i \in 0..(Len(s) - Len(pat)) : SubSeq(s, i + 1, i + Len(pat)) = pat}
    IN  IF hits = {} THEN -1 ELSE CHOOSE i \in hits : \A j \in hits : i <= j

\* ~(ex as any)?.message?.indexOf(pat) as a condition: ~undefined is -1.
MessageHas(ex, pat) == IF ex.hasMessage THEN indexOf(ex.message, pat) # -1 ELSE TRUE

DuplicatePattern == <<"[", "ConditionalCheckFailed">>

PredecessorPattern == <<"ConditionalCheckFailed", "]">>

\* The catch block of commitEvent: what it logs for an exception.
CatchLogs(ex) ==
    (IF MessageHas(ex, DuplicatePattern) THEN {"DuplicateEvent"} ELSE {})
        \cup (IF MessageHas(ex, PredecessorPattern) THEN {"PredecessorMissing"} ELSE {})

Returned(status, ex, logs) == [status |-> status, ex |-> ex, logs |-> logs]

NoReturn == Returned("none", NoError, {})

\* if (ev.id < 0) return;
ReturnsEarly(ev) == ev.id < 0

CommitEventCall(p, options, ev) ==
    /\ pc[p] = "start"
    /\ call' = [call EXCEPT ![p] = [fn |-> "commitEvent", event |-> EventOf(options, ev)]]
    /\ IF ReturnsEarly(ev)
          THEN /\ pc' = [pc EXCEPT ![p] = "returned"]
               /\ ret' = [ret EXCEPT ![p] = Returned("ok", NoError, {})]
          ELSE /\ pc' = [pc EXCEPT ![p] = "transactWrite"]
               /\ ret' = ret
    /\ UNCHANGED <<eventsTable, viewsTable, sharedDBB, stacks>>

\* await options.ddb.transactWrite(...) evaluated by the store, and the
\* try/catch around it.
TransactWrite(p) ==
    /\ pc[p] = "transactWrite"
    /\ LET items == TransactItems(call[p].event)
       IN  /\ eventsTable' = TransactWriteTable(eventsTable, items)
           /\ ret' = [ret EXCEPT ![p] =
                        IF Cancelled(eventsTable, items)
                            THEN Returned("throw", TransactionCanceled(eventsTable, items),
                                          CatchLogs(TransactionCanceled(eventsTable, items)))
                            ELSE Returned("ok", NoError, {})]
    /\ pc' = [pc EXCEPT ![p] = "returned"]
    /\ UNCHANGED <<viewsTable, sharedDBB, stacks, call>>

\* The store call fails before the request is evaluated.
TransactWriteFails(p) ==
    /\ pc[p] = "transactWrite"
    /\ \E ex \in TransportErrors :
          ret' = [ret EXCEPT ![p] = Returned("throw", ex, CatchLogs(ex))]
    /\ pc' = [pc EXCEPT ![p] = "returned"]
    /\ UNCHANGED <<eventsTable, viewsTable, sharedDBB, stacks, call>>

(***************************************************************************)
(* commitAnonymousEvent                                                    *)
(***************************************************************************)
CommitAnonymousEventCall(p, options, ev) ==
    /\ pc[p] = "start"
    /\ call' = [call EXCEPT ![p] = [fn |-> "commitAnonymousEvent", event |-> EventOf(options, ev)]]
    /\ pc' = [pc EXCEPT ![p] = "query"]
    /\ UNCHANGED <<eventsTable, viewsTable, sharedDBB, stacks, ret>>

\* query with ScanIndexForward: false, Limit: 1: the item of the highest id
QueryLast(table, ns) ==
    {it \in ItemsOf(table, ns) : \A o \in ItemsOf(table, ns) : o.id <= it.id}

\* (lastEvent?.id ?? -1) + 1
SameEventId(table, ns) ==
    IF QueryLast(table, ns) = {} THEN -1
    ELSE (CHOOSE it \in QueryLast(table, ns) : TRUE).id

NextEventId(table, ns) ==
    IF QueryLast(table, ns) = {} THEN -1 + 1
    ELSE (CHOOSE it \in QueryLast(table, ns) : TRUE).id + 1

\* The tail query answers; commitEvent is entered with the next id.
QueryTail(p) ==
    /\ pc[p] = "query"
    /\ call' = [call EXCEPT ![p].event.id = NextEventId(eventsTable, call[p].event.namespace)]
    /\ pc' = [pc EXCEPT ![p] = "transactWrite"]
    /\ UNCHANGED <<eventsTable, viewsTable, sharedDBB, stacks, ret>>

\* The tail query fails; the exception leaves commitAnonymousEvent.
QueryTailFails(p) ==
    /\ pc[p] = "query"
    /\ \E ex \in TransportErrors :
          ret' = [ret EXCEPT ![p] = Returned("throw", ex, {})]
    /\ pc' = [pc EXCEPT ![p] = "returned"]
    /\ UNCHANGED <<eventsTable, viewsTable, sharedDBB, stacks, call>>

(***************************************************************************)
(* getEvent, slice                                                         *)
(***************************************************************************)
Undefined == [namespace |-> <<>>, id |-> -1, data |-> "undefined"]

getSomeEvent(table, options, id) ==
    IF ItemsOf(table, options.namespace) = {} THEN Undefined
    ELSE CHOOSE it \in ItemsOf(table, options.namespace) : TRUE

getEvent(table, options, id) ==
    IF ItemsAt(table, options.namespace, id) = {} THEN Undefined
    ELSE CHOOSE it \in ItemsAt(table, options.namespace, id) : TRUE

RECURSIVE Ascending(_)
Ascending(items) ==
    IF items = {} THEN <<>>
    ELSE LET first == CHOOSE it \in items : \A o \in items : it.id <= o.id
         IN  <<first>> \o Ascending(items \ {first})

sliceFromZero(table, options, start, end) == Ascending(ItemsOf(table, options.namespace))

\* KeyConditionExpression "#ns=:ns and #id >= :start"; end is not used.
slice(table, options, start, end) ==
    Ascending({it \in ItemsOf(table, options.namespace) : it.id >= start})

\* An optional argument: <<>> for undefined, <<n>> for the number n.
Optional(S) == {<<>>} \cup {<<n>> : n \in S}

\* getEvent up to its await.
GetEventCall(p, options, id) ==
    /\ pc[p] = "start"
    /\ call' = [call EXCEPT ![p] = [fn |-> "getEvent", options |-> options, id |-> id,
                                     result |-> <<>>]]
    /\ pc' = [pc EXCEPT ![p] = "get"]
    /\ UNCHANGED <<eventsTable, viewsTable, sharedDBB, stacks, ret>>

\* The store answers the get; getEvent returns event.Item.
GetItem(p) ==
    /\ pc[p] = "get"
    /\ call' = [call EXCEPT ![p].result = <<getEvent(eventsTable, call[p].options, call[p].id)>>]
    /\ ret' = [ret EXCEPT ![p] = Returned("ok", NoError, {})]
    /\ pc' = [pc EXCEPT ![p] = "returned"]
    /\ UNCHANGED <<eventsTable, viewsTable, sharedDBB, stacks>>

\* The get fails; the exception leaves getEvent.
GetItemFails(p) ==
    /\ pc[p] = "get"
    /\ \E ex \in TransportErrors :
          ret' = [ret EXCEPT ![p] = Returned("throw", ex, {})]
    /\ pc' = [pc EXCEPT ![p] = "returned"]
    /\ UNCHANGED <<eventsTable, viewsTable, sharedDBB, stacks, call>>

\* slice up to its await.
SliceCall(p, options, start, end) ==
    /\ pc[p] = "start"
    /\ call' = [call EXCEPT ![p] = [fn |-> "slice", options |-> options, start |-> start,
                                     end |-> end, result |-> <<>>]]
    /\ pc' = [pc EXCEPT ![p] = "slice"]
    /\ UNCHANGED <<eventsTable, viewsTable, sharedDBB, stacks, ret>>

\* The store answers the query; slice returns res.Items.
QuerySlice(p) ==
    /\ pc[p] = "slice"
    /\ call' = [call EXCEPT ![p].result =
                   slice(eventsTable, call[p].options, call[p].start, call[p].end)]
    /\ ret' = [ret EXCEPT ![p] = Returned("ok", NoError, {})]
    /\ pc' = [pc EXCEPT ![p] = "returned"]
    /\ UNCHANGED <<eventsTable, viewsTable, sharedDBB, stacks>>

\* The query fails; the exception leaves slice.
QuerySliceFails(p) ==
    /\ pc[p] = "slice"
    /\ \E ex \in TransportErrors :
          ret' = [ret EXCEPT ![p] = Returned("throw", ex, {})]
    /\ pc' = [pc EXCEPT ![p] = "returned"]
    /\ UNCHANGED <<eventsTable, viewsTable, sharedDBB, stacks, call>>


(***************************************************************************)
(* ddbViewCache                                                            *)
(***************************************************************************)
\* The namespaces view caches are made for, and the view identifiers.
CacheNamespaces == {"S", "T"}

ViewNames == {"v1", "v2"}

\* Compiled views: eventId and payload, and possibly fields of their own
\* named namespace or viewName.
CompiledViews(p) ==
    {[eventId |-> e, data |-> p, namespace |-> k[1], viewName |-> k[2]] :
        e \in 0..MaxEventId, k \in {<<Absent, Absent>>, <<"T", Absent>>, <<Absent, "v2">>}}

CacheOptions == [namespace : CacheNamespaces, ddb : BOOLEAN]

\* options.ddb = options.ddb ?? sharedDBB;  ddb is TRUE for a client and
\* FALSE for undefined.
ddbViewCache(options, shared) == [options EXCEPT !.ddb = options.ddb \/ shared]

ViewsAt(table, ns, viewName) == {it \in table : it.namespace = ns /\ it.viewName = viewName}

\* Item: { namespace: options.namespace, viewName: identifier, ...compiledView }
CacheItem(options, identifier, compiledView) ==
    [namespace |-> IF compiledView.namespace # Absent THEN compiledView.namespace ELSE options.namespace,
     viewName |-> IF compiledView.viewName # Absent THEN compiledView.viewName ELSE identifier,
     eventId |-> compiledView.eventId,
     data |-> compiledView.data]

AlwaysWrites(table, item) == TRUE

\* ConditionExpression "attribute_not_exists(#ns) OR #evid < :evid", with
\* :evid the view's eventId, on the item stored at the Item's key
ViewCondition(table, item) ==
    \/ ViewsAt(table, item.namespace, item.viewName) = {}
    \/ \E old \in ViewsAt(table, item.namespace, item.viewName) : old.eventId < item.eventId

\* put: the item replaces the one stored at its key when the condition holds.
PutViewTable(table, item) ==
    IF ViewCondition(table, item)
        THEN {it \in table : ~(it.namespace = item.namespace /\ it.viewName = item.viewName)} \cup {item}
        ELSE table

\* The store's ConditionalCheckFailedException of a put whose condition is
\* false; the code reads its message.
ConditionalCheckFailedException ==
    [hasMessage |-> TRUE, message |-> <<"The conditional request failed">>]

\* if (~(ex as any)?.message?.indexOf("ConditionalCheckFailed")) return; throw ex;
CatchUpdateCache(ex) ==
    IF MessageHas(ex, <<"ConditionalCheckFailed">>)
        THEN Returned("ok", ex, {})
        ELSE Returned("throw", ex, {})

NoView == [namespace |-> Absent, viewName |-> Absent, eventId |-> -1, data |-> "undefined"]

\* getFromCache: options.ddb?.get(...) and res?.Item
getFromCache(table, options, identifier) ==
    IF options.ddb /\ ViewsAt(table, options.namespace, identifier) # {}
        THEN CHOOSE it \in ViewsAt(table, options.namespace, identifier) : TRUE
        ELSE NoView

\* createStack: sharedDBB = sharedDBB ?? DynamoDBDocument.from(...), run in
\* p's process on a registry of its own (every handler invocation makes
\* one), which is not the registry that stacks stands for.
CreateStack(p) ==
    /\ pc[p] \in {"start", "cache"}
    /\ ~sharedDBB[p]
    /\ sharedDBB' = [sharedDBB EXCEPT ![p] = TRUE]
    /\ UNCHANGED <<eventsTable, viewsTable, stacks, pc, call, ret>>

DdbViewCacheCall(p, options) ==
    /\ pc[p] = "start"
    /\ call' = [call EXCEPT ![p] = [fn |-> "ddbViewCache", cache |-> ddbViewCache(options, sharedDBB[p])]]
    /\ pc' = [pc EXCEPT ![p] = "cache"]
    /\ UNCHANGED <<eventsTable, viewsTable, sharedDBB, stacks, ret>>

\* updateCache up to its await; without a client options.ddb?.put(...) is
\* undefined and the call returns.
UpdateCacheCall(p, identifier, compiledView) ==
    /\ pc[p] = "cache"
    /\ call' = [call EXCEPT ![p] = [fn |-> "updateCache", cache |-> call[p].cache,
                                     identifier |-> identifier, view |-> compiledView,
                                     item |-> CacheItem(call[p].cache, identifier, compiledView)]]
    /\ IF call[p].cache.ddb
          THEN /\ pc' = [pc EXCEPT ![p] = "put"]
               /\ ret' = ret
          ELSE /\ pc' = [pc EXCEPT ![p] = "returned"]
               /\ ret' = [ret EXCEPT ![p] = Returned("ok", NoError, {})]
    /\ UNCHANGED <<eventsTable, viewsTable, sharedDBB, stacks>>

\* The store evaluates the put, and the try/catch around it.
PutView(p) ==
    /\ pc[p] = "put"
    /\ viewsTable' = PutViewTable(viewsTable, call[p].item)
    /\ ret' = [ret EXCEPT ![p] =
                 IF ViewCondition(viewsTable, call[p].item)
                     THEN Returned("ok", NoError, {})
                     ELSE CatchUpdateCache(ConditionalCheckFailedException)]
    /\ pc' = [pc EXCEPT ![p] = "returned"]
    /\ UNCHANGED <<eventsTable, sharedDBB, stacks, call>>

\* The put fails before the store evaluates it.
PutViewFails(p) ==
    /\ pc[p] = "put"
    /\ \E ex \in TransportErrors : ret' = [ret EXCEPT ![p] = CatchUpdateCache(ex)]
    /\ pc' = [pc EXCEPT ![p] = "returned"]
    /\ UNCHANGED <<eventsTable, viewsTable, sharedDBB, stacks, call>>

(***************************************************************************)
(* ddbStore: the registry of one ddbStore(tablename) call.  stacks is its  *)
(* Map from name(stackSet, stackName) to the stack registered there; its   *)
(* callers are the asynchronous calls of one process, which interleave at  *)
(* their awaits only.                                                      *)
(***************************************************************************)
createDDBStackOfItsOwn(namespace, obj) == [namespace |-> namespace \o <<obj>>, obj |-> obj]

\* The stack object createDDBStack({ ddb, namespace, tablename }) returns;
\* obj tells the objects of different createDDBStack calls apart.
createDDBStack(namespace, obj) == [namespace |-> namespace, obj |-> obj]

\* undefined, what Map.get returns for a key it does not hold.
NoStack == createDDBStack(<<>>, "undefined")

getNoStack(map, stackSet, stackName) == NoStack

\* stacks.get(name(stackSet, stackName))
getStack(map, stackSet, stackName) == map[name(stackSet, stackName)]

\* getOrCreateStack up to its first await: getStack has no await of its
\* own, so the lookup is made at once and its answer awaited.
GetOrCreateStackCall(p, identity) ==
    /\ pc[p] = "start"
    /\ call' = [call EXCEPT ![p] = [fn |-> "getOrCreateStack", identity |-> identity,
                                     existingStack |-> getStack(stacks, identity[1], identity[2]),
                                     stack |-> NoStack]]
    /\ pc' = [pc EXCEPT ![p] = "getStack"]
    /\ UNCHANGED <<eventsTable, viewsTable, sharedDBB, stacks, ret>>

\* After await getStack(...): the existing stack is returned, or createStack
\* runs up to its return (it has no await of its own) and is awaited.
\* sharedDBB is the module's, shared by the callers of the registry.
GetStackAwaited(p) ==
    /\ pc[p] = "getStack"
    /\ IF call[p].existingStack # NoStack
          THEN /\ call' = [call EXCEPT ![p].stack = call[p].existingStack]
               /\ pc' = [pc EXCEPT ![p] = "returned"]
               /\ ret' = [ret EXCEPT ![p] = Returned("ok", NoError, {})]
               /\ UNCHANGED <<sharedDBB, stacks>>
          ELSE LET _name == name(call[p].identity[1], call[p].identity[2])
                   stack == createDDBStack(_name, p)
               IN  /\ sharedDBB' = [q \in Procs |-> TRUE]
                   /\ stacks' = [stacks EXCEPT ![_name] = stack]
                   /\ call' = [call EXCEPT ![p].stack = stack]
                   /\ pc' = [pc EXCEPT ![p] = "createStack"]
                   /\ ret' = ret
    /\ UNCHANGED <<eventsTable, viewsTable>>

\* After await createStack(...): the new stack is returned.
CreateStackAwaited(p) ==
    /\ pc[p] = "createStack"
    /\ pc' = [pc EXCEPT ![p] = "returned"]
    /\ ret' = [ret EXCEPT ![p] = Returned("ok", NoError, {})]
    /\ UNCHANGED <<eventsTable, viewsTable, sharedDBB, stacks, call>>

(***************************************************************************)
(* Specification of the event stacks                                       *)
(***************************************************************************)
Init ==
    /\ eventsTable = {}
    /\ viewsTable = {}
    /\ sharedDBB = [p \in Procs |-> FALSE]
    /\ stacks = [k \in Namespaces |-> NoStack]
    /\ pc = [p \in Procs |-> "start"]
    /\ call = [p \in Procs |-> [fn |-> "none"]]
    /\ ret = [p \in Procs |-> NoReturn]

CommitEvent ==
    \E p \in Procs, options \in StackOptions, id \in (-1)..MaxId :
        CommitEventCall(p, options, [id |-> id, data |-> p])

CommitAnonymousEvent ==
    \E p \in Procs, options \in StackOptions :
        CommitAnonymousEventCall(p, options, [id |-> -1, data |-> p])

Next ==
    \/ CommitEvent
    \/ \E p \in Procs : TransactWrite(p)
    \/ \E p \in Procs : TransactWriteFails(p)
    \/ CommitAnonymousEvent
    \/ \E p \in Procs : QueryTail(p)
    \/ \E p \in Procs : QueryTailFails(p)

Spec == Init /\ [][Next]_vars

(***************************************************************************)
(* Specification of the event stacks with their readers                    *)
(***************************************************************************)
GetEvent ==
    \E p \in Readers, options \in StackOptions, id \in 0..MaxId : GetEventCall(p, options, id)

Slice ==
    \E p \in Readers, options \in StackOptions, start \in 0..MaxId :
        \E end \in Optional(0..MaxId) : SliceCall(p, options, start, end)

NextRead ==
    \/ Next
    \/ GetEvent
    \/ \E p \in Readers : GetItem(p)
    \/ \E p \in Readers : GetItemFails(p)
    \/ Slice
    \/ \E p \in Readers : QuerySlice(p)
    \/ \E p \in Readers : QuerySliceFails(p)

SpecRead == Init /\ [][NextRead]_vars

(***************************************************************************)
(* Specification of the view caches                                        *)
(***************************************************************************)
DdbViewCache ==
    \E p \in CacheProcs, options \in CacheOptions : DdbViewCacheCall(p, options)

UpdateCache ==
    \E p \in CacheProcs, identifier \in ViewNames :
        \E compiledView \in CompiledViews(p) : UpdateCacheCall(p, identifier, compiledView)

NextCache ==
    \/ \E p \in CacheProcs : CreateStack(p)
    \/ DdbViewCache
    \/ UpdateCache
    \/ \E p \in CacheProcs : PutView(p)
    \/ \E p \in CacheProcs : PutViewFails(p)

SpecCache == Init /\ [][NextCache]_vars

(***************************************************************************)
(* Specification of the registry: calls of getOrCreateStack on one         *)
(* registry, and commits through the stacks they returned.                 *)
(***************************************************************************)
GetOrCreateStack ==
    \E p \in Procs, identity \in Identities : GetOrCreateStackCall(p, identity)

\* q's getOrCreateStack has returned its stack to the caller.
HoldsStack(q) == call[q].fn = "getOrCreateStack" /\ pc[q] = "returned"

\* A commit through the stack that q's getOrCreateStack returned.
CommitThroughStack ==
    \E p, q \in Procs :
        /\ HoldsStack(q)
        /\ \/ \E id \in 0..MaxId : CommitEventCall(p, call[q].stack, [id |-> id, data |-> p])
           \/ CommitAnonymousEventCall(p, call[q].stack, [id |-> -1, data |-> p])

NextRegistry ==
    \/ GetOrCreateStack
    \/ \E p \in Procs : GetStackAwaited(p)
    \/ \E p \in Procs : CreateStackAwaited(p)
    \/ CommitThroughStack
    \/ \E p \in Procs : QueryTail(p)
    \/ \E p \in Procs : QueryTailFails(p)
    \/ \E p \in Procs : TransactWrite(p)
    \/ \E p \in Procs : TransactWriteFails(p)

SpecRegistry == Init /\ [][NextRegistry]_vars

(***************************************************************************)
(* createActionsInAWS: the callback of an action's lambda.  executeAction  *)
(* is the library's; it resolves, or rejects with a failure that carries   *)
(* the attempted action, or with another error.                            *)
(***************************************************************************)
\* What executeAction rejects with: { errorMessage, action, result }, or an
\* error without these fields.
ActionFailures ==
    {[errorMessage |-> "rejected", action |-> "action", result |-> "result"],
     [errorMessage |-> "rejected", action |-> "action", result |-> Absent]}

OtherFailure == [errorMessage |-> Absent, action |-> Absent, result |-> Absent]

\* event.body: JSON.parse accepts it or throws.
Bodies == {"json", "not json"}

Response(statusCode, message, action, result) ==
    [statusCode |-> statusCode, message |-> message, action |-> action, result |-> result]

NoResponse == Response(0, Absent, Absent, Absent)

CatchAs409(ex) == Response(409, ex.errorMessage, ex.action, ex.result)

\* The catch block: 409 with message, action and result when ex.action is
\* set, 500 otherwise.
Catch(ex) ==
    IF ex.action # Absent
        THEN Response(409, ex.errorMessage, ex.action, ex.result)
        ELSE Response(500, "Internal server error", Absent, Absent)

\* The callback up to the try block: the EventBridge client, the registry
\* and its stack are made (createStack sets sharedDBB).
ActionsCallbackCall(p, body) ==
    /\ pc[p] = "start"
    /\ call' = [call EXCEPT ![p] = [fn |-> "actionsCallback", body |-> body,
                                     executed |-> FALSE, published |-> FALSE,
                                     caught |-> OtherFailure, response |-> NoResponse]]
    /\ sharedDBB' = [sharedDBB EXCEPT ![p] = TRUE]
    /\ pc' = [pc EXCEPT ![p] = "try"]
    /\ UNCHANGED <<eventsTable, viewsTable, stacks, ret>>

\* try: JSON.parse(event.body) throws into the catch block, or
\* executeAction is called and awaited.
Try(p) ==
    /\ pc[p] = "try"
    /\ IF call[p].body = "json"
          THEN /\ pc' = [pc EXCEPT ![p] = "executeAction"]
               /\ UNCHANGED <<call, ret>>
          ELSE /\ call' = [call EXCEPT ![p].response = Catch(OtherFailure)]
               /\ pc' = [pc EXCEPT ![p] = "returned"]
               /\ ret' = [ret EXCEPT ![p] = Returned("ok", NoError, {})]
    /\ UNCHANGED <<eventsTable, viewsTable, sharedDBB, stacks>>

\* executeAction resolves; putEvents is called and awaited.
ExecuteActionResolves(p) ==
    /\ pc[p] = "executeAction"
    /\ call' = [call EXCEPT ![p].executed = TRUE]
    /\ pc' = [pc EXCEPT ![p] = "putEvents"]
    /\ UNCHANGED <<eventsTable, viewsTable, sharedDBB, stacks, ret>>

\* executeAction rejects; the catch block answers.
ExecuteActionRejects(p) ==
    /\ pc[p] = "executeAction"
    /\ \E ex \in ActionFailures \cup {OtherFailure} :
          call' = [call EXCEPT ![p].caught = ex, ![p].response = Catch(ex)]
    /\ pc' = [pc EXCEPT ![p] = "returned"]
    /\ ret' = [ret EXCEPT ![p] = Returned("ok", NoError, {})]
    /\ UNCHANGED <<eventsTable, viewsTable, sharedDBB, stacks>>

\* putEvents resolves: the notification is on the bus; 204.
PutEventsResolves(p) ==
    /\ pc[p] = "putEvents"
    /\ call' = [call EXCEPT ![p].published = TRUE,
                            ![p].response = Response(204, Absent, Absent, Absent)]
    /\ pc' = [pc EXCEPT ![p] = "returned"]
    /\ ret' = [ret EXCEPT ![p] = Returned("ok", NoError, {})]
    /\ UNCHANGED <<eventsTable, viewsTable, sharedDBB, stacks>>

\* putEvents rejects (the client's errors carry no action); the catch
\* block answers.
PutEventsRejects(p) ==
    /\ pc[p] = "putEvents"
    /\ call' = [call EXCEPT ![p].response = Catch(OtherFailure)]
    /\ pc' = [pc EXCEPT ![p] = "returned"]
    /\ ret' = [ret EXCEPT ![p] = Returned("ok", NoError, {})]
    /\ UNCHANGED <<eventsTable, viewsTable, sharedDBB, stacks>>

ActionsCallback == \E p \in Procs, body \in Bodies : ActionsCallbackCall(p, body)

NextActions ==
    \/ ActionsCallback
    \/ \E p \in Procs : Try(p)
    \/ \E p \in Procs : ExecuteActionResolves(p)
    \/ \E p \in Procs : ExecuteActionRejects(p)
    \/ \E p \in Procs : PutEventsResolves(p)
    \/ \E p \in Procs : PutEventsRejects(p)

SpecActions == Init /\ [][NextActions]_vars

(***************************************************************************)
(* createViewProjectorInAWS, createViewGetterInAWS: the callbacks of the   *)
(* view lambdas.  A process is a lambda container, which serves one        *)
(* invocation after the other and keeps the module's sharedDBB between     *)
(* them.  compileView is the library's; it is handed the cache and may put *)
(* a compiled view into it.                                                *)
(***************************************************************************)
Handlers == {"projector", "getter"}

\* The callback up to its await: ddbStore(...), then ddbViewCache({
\* namespace: prefix, tablename }) without a ddb, then getOrCreateStack is
\* called and awaited.
ViewCallbackCall(p, handler, prefix) ==
    /\ pc[p] = "start"
    /\ call' = [call EXCEPT ![p] =
                   [fn |-> "viewCallback", handler |-> handler,
                    cache |-> ddbViewCache([namespace |-> prefix, ddb |-> FALSE], sharedDBB[p])]]
    /\ pc' = [pc EXCEPT ![p] = "getOrCreateStack"]
    /\ UNCHANGED <<eventsTable, viewsTable, sharedDBB, stacks, ret>>

\* getOrCreateStack on the callback's new registry: createStack runs and
\* sets sharedDBB; compileView is then called with the cache.
ViewStackAwaited(p) ==
    /\ pc[p] = "getOrCreateStack"
    /\ sharedDBB' = [sharedDBB EXCEPT ![p] = TRUE]
    /\ pc' = [pc EXCEPT ![p] = "cache"]
    /\ UNCHANGED <<eventsTable, viewsTable, stacks, call, ret>>

\* compileView returns without a put.
CompileViewReturns(p) ==
    /\ pc[p] = "cache"
    /\ call[p].fn = "viewCallback"
    /\ pc' = [pc EXCEPT ![p] = "returned"]
    /\ ret' = [ret EXCEPT ![p] = Returned("ok", NoError, {})]
    /\ UNCHANGED <<eventsTable, viewsTable, sharedDBB, stacks, call>>

\* The container takes its next invocation.
NextInvocation(p) ==
    /\ pc[p] = "returned"
    /\ pc' = [pc EXCEPT ![p] = "start"]
    /\ call' = [call EXCEPT ![p] = [fn |-> "none"]]
    /\ ret' = [ret EXCEPT ![p] = NoReturn]
    /\ UNCHANGED <<eventsTable, viewsTable, sharedDBB, stacks>>

\* The containers are those of the lambdas of one event stack: one prefix.
ViewCallback ==
    \E p \in CacheProcs, handler \in Handlers : ViewCallbackCall(p, handler, "S")

\* compileView puts a view it compiled (eventId and payload) into the cache.
CompileViewPuts ==
    \E p \in CacheProcs, identifier \in ViewNames :
        \E compiledView \in {v \in CompiledViews(p) : v.namespace = Absent /\ v.viewName = Absent} :
            /\ call[p].fn = "viewCallback"
            /\ UpdateCacheCall(p, identifier, compiledView)

NextViews ==
    \/ ViewCallback
    \/ \E p \in CacheProcs : ViewStackAwaited(p)
    \/ \E p \in CacheProcs : CompileViewReturns(p)
    \/ CompileViewPuts
    \/ \E p \in CacheProcs : PutView(p)
    \/ \E p \in CacheProcs : PutViewFails(p)
    \/ \E p \in CacheProcs : NextInvocation(p)

SpecViews == Init /\ [][NextViews]_vars

(***************************************************************************)
(* Vocabulary of the properties                                            *)
(***************************************************************************)
\* p's call has returned to its caller.
HasReturned(p) == pc[p] = "returned"

\* p's transaction is answered in this step.
TransactWriteAnswered(p) == pc[p] = "transactWrite" /\ pc'[p] = "returned"

\* The store evaluated p's request (the exception, if any, is the store's
\* verdict and not a transport failure).
Evaluated(r) == r.ex \notin TransportErrors

Succeeded(p) == HasReturned(p) /\ ret[p].status = "ok"

AnonymousCallers(ns) ==
    {p \in Procs : call[p].fn = "commitAnonymousEvent" /\ call[p].event.namespace = ns}

ExplicitCallers(ns) ==
    {p \in Procs : call[p].fn = "commitEvent" /\ call[p].event.namespace = ns}

\* p is past its tail read and holds a candidate id.
HasCandidate(p) == call[p].fn = "commitAnonymousEvent" /\ pc[p] \in {"transactWrite", "returned"}

(***************************************************************************)
(* C1: in every reachable state the ids stored for a namespace are empty   *)
(* or exactly 0..n, each id stored once, and a reader sees them so: slice  *)
(* from 0 lists the ids 0, 1, ..., n in this order and getEvent finds an   *)
(* event at id only if it finds one at every smaller id.                   *)
(***************************************************************************)
C1_Contiguous ==
    \A options \in StackOptions :
        LET ns == options.namespace
            ids == IdsOf(eventsTable, ns)
            seen == slice(eventsTable, options, 0, Absent)
        IN  /\ ids = 0..(Cardinality(ids) - 1)
            /\ Cardinality(ItemsOf(eventsTable, ns)) = Cardinality(ids)
            /\ Len(seen) = Cardinality(ids)
            /\ \A i \in 1..Len(seen) : seen[i].id = i - 1
            /\ \A id \in 1..(MaxId + Cardinality(Procs)) :
                  getEvent(eventsTable, options, id) # Undefined
                      => getEvent(eventsTable, options, id - 1) # Undefined

\* Events 0 and 1 stored in one namespace by writers of both kinds, and a
\* third writer of the namespace refused by the store.
C1_Witness ==
    \E ns \in Namespaces :
        /\ IdsOf(eventsTable, ns) = 0..1
        /\ \E p \in AnonymousCallers(ns) : Succeeded(p)
        /\ \E p \in ExplicitCallers(ns) : Succeeded(p) /\ call[p].event.id > 0
        /\ \E p \in Procs :
              /\ HasReturned(p) /\ ret[p].status = "throw" /\ Evaluated(ret[p])
              /\ call[p].event.namespace = ns

(***************************************************************************)
(* C2: on a stream to which only commitAnonymousEvent calls have stored    *)
(* events, the ids assigned to the successful calls are exactly 0..k-1     *)
(* for k successful calls: none skipped, none assigned twice.  It holds    *)
(* in every state, so also once all calls have completed.                  *)
(***************************************************************************)
C2_AnonymousIds ==
    \A ns \in Namespaces :
        LET ok == {p \in AnonymousCallers(ns) : Succeeded(p)}
            explicitOk == {p \in ExplicitCallers(ns) : Succeeded(p) /\ call[p].event.id >= 0}
        IN  explicitOk = {}
                => /\ {call[p].event.id : p \in ok} = 0..(Cardinality(ok) - 1)
                   /\ \A p, q \in ok : call[p].event.id = call[q].event.id => p = q

\* All calls done, all anonymous on one stream: two succeeded, one lost the race.
C2_Witness ==
    \E ns \in Namespaces :
        /\ AnonymousCallers(ns) = Procs
        /\ \A p \in Procs : HasReturned(p)
        /\ Cardinality({p \in Procs : Succeeded(p)}) = 2
        /\ \E p \in Procs : ret[p].status = "throw" /\ Evaluated(ret[p])

(***************************************************************************)
(* C3: of two commitAnonymousEvent callers of one stream that hold the     *)
(* same candidate id, at most one succeeds; when one has succeeded the     *)
(* other does not, and whenever the store evaluated the other's            *)
(* transaction, it failed on the not-exists condition of the new record    *)
(* (the first cancellation reason), which the catch block reports as       *)
(* DuplicateEvent.  A transport failure is the only other way to fail.     *)
(***************************************************************************)
C3_OneWinner ==
    \A p, q \in Procs :
        (/\ p # q
         /\ HasCandidate(p) /\ HasCandidate(q)
         /\ call[p].event.namespace = call[q].event.namespace
         /\ call[p].event.id = call[q].event.id
         /\ Succeeded(q))
            => /\ ~Succeeded(p)
               /\ (HasReturned(p) /\ Evaluated(ret[p]))
                     => /\ ret[p].status = "throw"
                        /\ indexOf(ret[p].ex.message, <<"[", "ConditionalCheckFailed">>) # -1
                        /\ "DuplicateEvent" \in ret[p].logs

\* Two callers read the same tail; one won, the store refused the other.
C3_Witness ==
    \E p, q \in Procs :
        /\ p # q
        /\ HasCandidate(p) /\ HasCandidate(q)
        /\ call[p].event.namespace = call[q].event.namespace
        /\ call[p].event.id = call[q].event.id
        /\ call[p].event.id > 0
        /\ Succeeded(q)
        /\ HasReturned(p) /\ ret[p].status = "throw" /\ Evaluated(ret[p])

(***************************************************************************)
(* C4: a commitEvent transaction is decided in the one step that answers   *)
(* it.  When the call fails, the events table (every namespace) is the     *)
(* same after the step as before.  When it succeeds, both conditions hold  *)
(* of the table the step starts from (no record at the id, a record at     *)
(* id-1 when id > 0) and the step adds exactly the event.                  *)
(***************************************************************************)
C4_AtomicStep ==
    \A p \in Procs :
        TransactWriteAnswered(p)
            => LET e == call[p].event
               IN  /\ ret'[p].status = "throw" => eventsTable' = eventsTable
                   /\ ret'[p].status = "ok"
                         => /\ ~AttributeExists(eventsTable, e.namespace, e.id)
                            /\ e.id > 0 => AttributeExists(eventsTable, e.namespace, e.id - 1)
                            /\ eventsTable' = eventsTable \cup {e}
                            /\ e \notin eventsTable

\* C4: every step of every behaviour is such a step.
C4_Atomic == [][C4_AtomicStep]_vars

\* A call failed on its predecessor check while the stream and another
\* stream hold events, and a call succeeded at an id > 0.
C4_Witness ==
    /\ \E p \in Procs :
          /\ HasReturned(p) /\ call[p].fn = "commitEvent"
          /\ ret[p].status = "throw" /\ Evaluated(ret[p])
          /\ call[p].event.id > 0
          /\ ~AttributeExists(eventsTable, call[p].event.namespace, call[p].event.id)
          /\ ItemsOf(eventsTable, call[p].event.namespace) # {}
    /\ \E q \in Procs : Succeeded(q) /\ call[q].event.id > 0

(***************************************************************************)
(* C5: every commitEvent call that returns without raising has stored the  *)
(* event at (namespace, id).  As stated, for every call.                   *)
(***************************************************************************)
C5_SuccessStored ==
    \A p \in Procs :
        (call[p].fn = "commitEvent" /\ Succeeded(p))
            => AttributeExists(eventsTable, call[p].event.namespace, call[p].event.id)

(***************************************************************************)
(* C6: a commitEvent transaction with id > 0 that the store answers while  *)
(* no record exists at (namespace, id-1) fails and stores nothing, and     *)
(* when the store evaluated it the failure is reported as                  *)
(* PredecessorMissing and nothing else.                                    *)
(***************************************************************************)
C6_Step ==
    \A p \in Procs :
        (/\ TransactWriteAnswered(p)
         /\ call[p].event.id > 0
         /\ ~AttributeExists(eventsTable, call[p].event.namespace, call[p].event.id - 1))
            => /\ ret'[p].status = "throw"
               /\ eventsTable' = eventsTable
               /\ Evaluated(ret'[p]) => ret'[p].logs = {"PredecessorMissing"}

\* C6: every step of every behaviour is such a step.
C6_PredecessorMissing == [][C6_Step]_vars

\* Tail 0, id 2: two ahead of the tail, refused as PredecessorMissing.
C6_Witness ==
    \E p \in Procs :
        /\ HasReturned(p) /\ call[p].fn = "commitEvent"
        /\ call[p].event.id = 2
        /\ IdsOf(eventsTable, call[p].event.namespace) = {0}
        /\ ret[p].status = "throw"
        /\ ret[p].logs = {"PredecessorMissing"}

(***************************************************************************)
(* C7: a commitEvent transaction with id 0 on an empty stream succeeds     *)
(* when the store evaluates it; one whose id already has a record fails,   *)
(* reported as DuplicateEvent when the store evaluated it; and no step     *)
(* removes or changes a stored event.                                      *)
(***************************************************************************)
C7_Step ==
    /\ \A it \in eventsTable : it \in eventsTable'
    /\ \A p \in Procs :
          TransactWriteAnswered(p)
              => LET e == call[p].event
                 IN  /\ (e.id = 0 /\ ItemsOf(eventsTable, e.namespace) = {} /\ Evaluated(ret'[p]))
                           => ret'[p].status = "ok" /\ e \in eventsTable'
                     /\ AttributeExists(eventsTable, e.namespace, e.id)
                           => /\ ret'[p].status = "throw"
                              /\ Evaluated(ret'[p]) => "DuplicateEvent" \in ret'[p].logs

\* C7: every step of every behaviour is such a step.
C7_Immutable == [][C7_Step]_vars

\* id 0 stored by one caller, then refused to two others (explicit), whose
\* payloads differ from the stored one.
C7_Witness ==
    \E p, q \in Procs :
        /\ p # q
        /\ call[p].fn = "commitEvent" /\ call[q].fn = "commitEvent"
        /\ call[p].event.id = 0 /\ call[q].event.id = 0
        /\ call[p].event.namespace = call[q].event.namespace
        /\ Succeeded(p)
        /\ HasReturned(q) /\ ret[q].status = "throw" /\ "DuplicateEvent" \in ret[q].logs
        /\ Evaluated(ret[q])
        /\ call[p].event \in eventsTable /\ call[q].event \notin eventsTable

(***************************************************************************)
(* C8: every commitEvent failure on a condition is classified as exactly   *)
(* one of DuplicateEvent and PredecessorMissing.  As stated, for every id  *)
(* >= 0.                                                                   *)
(***************************************************************************)
C8_ExactlyOneKind ==
    \A p \in Procs :
        (/\ HasReturned(p)
         /\ call[p].fn \in {"commitEvent", "commitAnonymousEvent"}
         /\ ret[p].status = "throw"
         /\ indexOf(ret[p].ex.message, <<"ConditionalCheckFailed">>) # -1)
            => Cardinality(ret[p].logs) = 1

\* p's put is answered in this step.
PutAnswered(p) == pc[p] = "put" /\ pc'[p] = "returned"

CacheKeys == CacheNamespaces \X ViewNames

(***************************************************************************)
(* C9: for every (namespace, viewName), no step removes the stored view    *)
(* or replaces it by one with a smaller eventId: the stored eventId is     *)
(* non-decreasing along every behaviour, whatever puts interleave.         *)
(***************************************************************************)
C9_Step ==
    \A k \in CacheKeys :
        \A old \in ViewsAt(viewsTable, k[1], k[2]) :
            /\ ViewsAt(viewsTable', k[1], k[2]) # {}
            /\ \A new \in ViewsAt(viewsTable', k[1], k[2]) : new.eventId >= old.eventId

\* C9: every step of every behaviour is such a step.
C9_Monotonic == [][C9_Step]_vars

\* Two puts met at one key: the first stored eventId 0 and returned, the
\* second replaced it by eventId 1.
C9_Witness ==
    \E p, q \in CacheProcs :
        /\ p # q
        /\ HasReturned(p) /\ HasReturned(q)
        /\ call[p].fn = "updateCache" /\ call[q].fn = "updateCache"
        /\ ret[p].status = "ok" /\ ret[q].status = "ok"
        /\ call[p].cache.ddb
        /\ call[p].item.namespace = call[q].item.namespace
        /\ call[p].item.viewName = call[q].item.viewName
        /\ call[p].item.eventId < call[q].item.eventId
        /\ call[q].item \in viewsTable
        /\ call[p].item \notin viewsTable

(***************************************************************************)
(* C10: a put that the store answers while the entry stored for (the       *)
(* cache's namespace, identifier) has an eventId greater than or equal to  *)
(* the view's returns without raising and leaves that entry as it was.     *)
(* As stated (a put the store could not evaluate set aside).               *)
(***************************************************************************)
C10_Step ==
    \A p \in CacheProcs :
        (/\ PutAnswered(p)
         /\ Evaluated(ret'[p])
         /\ \E old \in ViewsAt(viewsTable, call[p].cache.namespace, call[p].identifier) :
                old.eventId >= call[p].view.eventId)
            => /\ ret'[p].status = "ok"
               /\ ViewsAt(viewsTable', call[p].cache.namespace, call[p].identifier)
                     = ViewsAt(viewsTable, call[p].cache.namespace, call[p].identifier)

\* C10: every step of every behaviour is such a step.
C10_StaleIsSilent == [][C10_Step]_vars

\* p's updateCache returns to its caller in this step, with or without a
\* request to the store.
UpdateCacheReturns(p) ==
    /\ pc[p] \in {"cache", "put"}
    /\ pc'[p] = "returned"
    /\ call'[p].fn = "updateCache"

\* No entry is stored for (the cache's namespace, identifier), or the one
\* stored has an eventId strictly less than the view's.
Fresh(table, c) ==
    \A old \in ViewsAt(table, c.cache.namespace, c.identifier) : old.eventId < c.view.eventId

(***************************************************************************)
(* C11: an updateCache that returns without raising, made while no entry   *)
(* is stored for (the cache's namespace, identifier) or the stored eventId *)
(* is strictly less than the view's, takes effect: getFromCache of the     *)
(* identifier on the same cache then returns the view just written.        *)
(* As stated.                                                              *)
(***************************************************************************)
C11_Step ==
    \A p \in CacheProcs :
        (/\ UpdateCacheReturns(p)
         /\ ret'[p].status = "ok"
         /\ Fresh(viewsTable, call'[p]))
            => LET got == getFromCache(viewsTable', call'[p].cache, call'[p].identifier)
               IN  /\ got.eventId = call'[p].view.eventId
                   /\ got.data = call'[p].view.data

\* C11: every step of every behaviour is such a step.
C11_PutTakesEffect == [][C11_Step]_vars

\* The store answers p's slice in this step.
SliceAnswered(p) == pc[p] = "slice" /\ pc'[p] = "returned" /\ ret'[p].status = "ok"

(***************************************************************************)
(* C12: a slice(start) without end that the store answers returns exactly  *)
(* the events stored for the stack's namespace with id >= start: every     *)
(* element is such an event, every such event is an element exactly once,  *)
(* the ids ascend strictly, and no element is of another namespace.        *)
(***************************************************************************)
C12_Step ==
    \A p \in Readers :
        (SliceAnswered(p) /\ call[p].end = <<>>)
            => LET r == call'[p].result
                   ns == call[p].options.namespace
               IN  /\ \A i \in 1..Len(r) :
                         /\ r[i] \in eventsTable
                         /\ r[i].namespace = ns
                         /\ r[i].id >= call[p].start
                   /\ \A it \in eventsTable :
                         (it.namespace = ns /\ it.id >= call[p].start)
                             => Cardinality({i \in 1..Len(r) : r[i] = it}) = 1
                   /\ \A i, j \in 1..Len(r) : i < j => r[i].id < r[j].id

C13_Step ==
    \A p \in Readers :
        (SliceAnswered(p) /\ call[p].end # <<>>)
            => \A i \in 1..Len(call'[p].result) :
                  /\ call[p].start <= call'[p].result[i].id
                  /\ call'[p].result[i].id < call[p].end[1]

\* C13: every step of every behaviour is such a step.
C13_SliceBetween == [][C13_Step]_vars

\* The store answers p's get in this step.
GetAnswered(p) == pc[p] = "get" /\ pc'[p] = "returned" /\ Evaluated(ret'[p])

(***************************************************************************)
(* C18: a getEvent(id) that the store answers returns without raising,     *)
(* with the event stored at (namespace, id) when there is one and with     *)
(* undefined when there is none; and no step of a getEvent call changes    *)
(* what is stored.                                                         *)
(***************************************************************************)
C18_Step ==
    \A p \in Readers :
        /\ (call'[p].fn = "getEvent" /\ pc'[p] # pc[p])
              => eventsTable' = eventsTable /\ viewsTable' = viewsTable
        /\ GetAnswered(p)
              => LET stored == ItemsAt(eventsTable, call[p].options.namespace, call[p].id)
                 IN  /\ ret'[p].status = "ok"
                     /\ Len(call'[p].result) = 1
                     /\ stored # {} => call'[p].result[1] \in stored
                     /\ stored = {} => call'[p].result[1] = Undefined

\* C18: every step of every behaviour is such a step.
C18_GetEvent == [][C18_Step]_vars

\* getEvent(1) on a stack that holds id 0 alone: undefined, no exception.
C18_Witness ==
    \E p \in Readers :
        /\ HasReturned(p) /\ call[p].fn = "getEvent" /\ ret[p].status = "ok"
        /\ call[p].id = 1
        /\ call[p].result = <<Undefined>>
        /\ IdsOf(eventsTable, call[p].options.namespace) = {0}

\* The events a reader of the stack sees: by getEvent at some id, or in
\* slice(0).
SeenThrough(stack) ==
    ({getEvent(eventsTable, stack, id) : id \in 0..(MaxId + Cardinality(Procs))} \ {Undefined})
        \cup {slice(eventsTable, stack, 0, Absent)[i] :
                  i \in 1..Len(slice(eventsTable, stack, 0, Absent))}

(***************************************************************************)
(* C14: the stacks that getOrCreateStack returned for two different        *)
(* (stackSet, stackName) identities are bound to different namespaces, and *)
(* no event stored in the namespace of the one is seen by getEvent or      *)
(* slice through the other, whatever characters the names contain.         *)
(* As stated.                                                              *)
(***************************************************************************)
C14_DistinctLogs ==
    \A p, q \in Procs :
        (HoldsStack(p) /\ HoldsStack(q) /\ call[p].identity # call[q].identity)
            => /\ call[p].stack.namespace # call[q].stack.namespace
               /\ \A it \in ItemsOf(eventsTable, call[p].stack.namespace) :
                     it \notin SeenThrough(call[q].stack)

\* Callers of getOrCreateStack for one identity.
CallersFor(identity) ==
    {p \in Procs : call[p].fn = "getOrCreateStack" /\ call[p].identity = identity}

(***************************************************************************)
(* C15: a getOrCreateStack call made when an earlier call for the same     *)
(* identity has returned finds the registered stack and returns it, and    *)
(* constructs and registers nothing; the stacks returned for one identity  *)
(* are bound to one namespace, and every event stored in it is seen by     *)
(* getEvent and slice through each of them.                                *)
(***************************************************************************)
C15_Step ==
    /\ \A q \in Procs :
          /\ (pc[q] = "start" /\ pc'[q] = "getStack"
                  /\ \E p \in CallersFor(call'[q].identity) : HoldsStack(p))
                => /\ call'[q].existingStack # NoStack
                   /\ call'[q].existingStack = stacks[name(call'[q].identity[1], call'[q].identity[2])]
          /\ (pc[q] = "getStack" /\ pc'[q] # pc[q] /\ call[q].existingStack # NoStack)
                => /\ pc'[q] = "returned"
                   /\ call'[q].stack = call[q].existingStack
                   /\ stacks' = stacks
    /\ \A p, q \in Procs :
          (HoldsStack(p)' /\ HoldsStack(q)' /\ call'[p].identity = call'[q].identity)
              => /\ call'[p].stack.namespace = call'[q].stack.namespace
                 /\ \A it \in ItemsOf(eventsTable', call'[p].stack.namespace) :
                       /\ getEvent(eventsTable', call'[q].stack, it.id) = it
                       /\ \E i \in 1..Len(slice(eventsTable', call'[q].stack, 0, Absent)) :
                             slice(eventsTable', call'[q].stack, 0, Absent)[i] = it

\* C15: every step of every behaviour is such a step.
C15_SameStack == [][C15_Step]_vars

\* Two calls for one identity, the second made after the first registered
\* its stack: both hold the same object; a third process stored id 0
\* through it, and the event is read back through the second call's stack.
C15_Witness ==
    \E p, q, w \in Procs :
        /\ p # q
        /\ HoldsStack(p) /\ HoldsStack(q)
        /\ call[p].identity = call[q].identity
        /\ call[p].existingStack = NoStack
        /\ call[q].existingStack = call[p].stack
        /\ call[q].stack = call[p].stack
        /\ call[w].fn = "commitEvent" /\ Succeeded(w)
        /\ call[w].event.namespace = call[p].stack.namespace
        /\ getEvent(eventsTable, call[q].stack, 0) = call[w].event

(***************************************************************************)
(* C16: when several getOrCreateStack calls for one identity on one        *)
(* registry have all returned, however they interleaved at their awaits,   *)
(* the registry holds one stack at the identity's name, of the namespace   *)
(* name(stackSet, stackName), and every stack returned is bound to that    *)
(* namespace.                                                              *)
(***************************************************************************)
C16_Converges ==
    \A identity \in Identities :
        (CallersFor(identity) # {} /\ \A p \in CallersFor(identity) : HoldsStack(p))
            => LET registered == getStack(stacks, identity[1], identity[2])
               IN  /\ registered # NoStack
                   /\ registered.namespace = name(identity[1], identity[2])
                   /\ \A p \in CallersFor(identity) :
                         call[p].stack.namespace = registered.namespace

\* Three calls for one identity raced: each missed the lookup and made a
\* stack of its own; all have returned and the registry holds one of them.
C16_Witness ==
    \E identity \in Identities :
        /\ CallersFor(identity) = Procs
        /\ \A p \in Procs : HoldsStack(p) /\ call[p].existingStack = NoStack
        /\ \A p \in Procs : call[p].stack.obj = p
        /\ \E p \in Procs : stacks[name(identity[1], identity[2])] = call[p].stack

(***************************************************************************)
(* C17: an updateCache whose put failed for any reason other than the      *)
(* write condition (the store not reached, throttled, an error with any    *)
(* message or with none) raises that failure to its caller.  As stated.    *)
(***************************************************************************)
C17_OthersPropagate ==
    \A p \in CacheProcs :
        (HasReturned(p) /\ call[p].fn = "updateCache" /\ ret[p].ex \in TransportErrors)
            => ret[p].status = "throw"

\* The id after the greatest one stored for the namespace, 0 when none is.
AfterTail(table, ns) ==
    IF IdsOf(table, ns) = {} THEN 0
    ELSE (CHOOSE n \in IdsOf(table, ns) : \A m \in IdsOf(table, ns) : m <= n) + 1

(***************************************************************************)
(* C19: a commitAnonymousEvent call goes through one tail read and then    *)
(* one transactWrite, made for the id after the tail the read saw (0 on an *)
(* empty stack); a failure of either ends the call with that failure, and  *)
(* a call that has ended reads and writes no more.                         *)
(***************************************************************************)
C19_Step ==
    \A p \in Procs :
        call'[p].fn = "commitAnonymousEvent"
            => /\ (pc[p] = "start" /\ pc'[p] # "start")
                     => pc'[p] = "query" /\ eventsTable' = eventsTable
               /\ (pc[p] = "query" /\ pc'[p] # "query")
                     => /\ eventsTable' = eventsTable
                        /\ \/ /\ pc'[p] = "transactWrite"
                              /\ call'[p].event.id = AfterTail(eventsTable, call[p].event.namespace)
                           \/ /\ pc'[p] = "returned"
                              /\ ret'[p].status = "throw"
               /\ (pc[p] = "transactWrite" /\ pc'[p] # "transactWrite")
                     => /\ pc'[p] = "returned"
                        /\ call'[p] = call[p]
                        /\ \/ ret'[p].status = "ok" /\ eventsTable' = eventsTable \cup {call[p].event}
                           \/ ret'[p].status = "throw" /\ eventsTable' = eventsTable
               /\ pc[p] = "returned"
                     => pc'[p] = "returned" /\ call'[p] = call[p] /\ ret'[p] = ret[p]

\* C19: every step of every behaviour is such a step.
C19_NoRetry == [][C19_Step]_vars

\* A call lost the race for id 0 and ended with the store's refusal, while
\* the id after the tail, 1, is still free: a second read and write would
\* have stored its event.
C19_Witness ==
    \E p \in Procs :
        /\ call[p].fn = "commitAnonymousEvent" /\ HasReturned(p)
        /\ ret[p].status = "throw" /\ Evaluated(ret[p])
        /\ call[p].event.id = 0
        /\ IdsOf(eventsTable, call[p].event.namespace) = {0}
        /\ call[p].event \notin eventsTable
        /\ \A q \in Procs : HasReturned(q)

(***************************************************************************)
(* C20: in the callback of an action, the notification is put on the bus   *)
(* only by a step taken after executeAction resolved; when executeAction   *)
(* rejects nothing is published and the answer is 409 with the failure's   *)
(* action and result when the failure carries the action, 500 otherwise;   *)
(* every other failure is answered 500; and 204 is answered only when the  *)
(* action was executed and the notification published.                     *)
(***************************************************************************)
C20_Step ==
    \A p \in Procs :
        call'[p].fn = "actionsCallback"
            => /\ call'[p].published => call'[p].executed
               /\ (pc[p] # "start" /\ call'[p].published /\ ~call[p].published)
                     => pc[p] = "putEvents" /\ call[p].executed
               /\ (pc[p] = "executeAction" /\ pc'[p] = "returned")
                     => /\ ~call'[p].published /\ ~call'[p].executed
                        /\ IF call'[p].caught \in ActionFailures
                              THEN /\ call'[p].response.statusCode = 409
                                   /\ call'[p].response.action = call'[p].caught.action
                                   /\ call'[p].response.result = call'[p].caught.result
                              ELSE call'[p].response.statusCode = 500
               /\ (pc[p] = "try" /\ pc'[p] = "returned")
                     => call'[p].response.statusCode = 500 /\ ~call'[p].published
               /\ (pc[p] = "putEvents" /\ pc'[p] = "returned" /\ ~call'[p].published)
                     => call'[p].response.statusCode = 500
               /\ call'[p].response.statusCode = 204
                     => call'[p].executed /\ call'[p].published
               /\ pc[p] = "returned" => call'[p] = call[p]

C21_CacheHasClient ==
    \A p \in CacheProcs :
        (call[p].fn = "viewCallback" /\ pc[p] = "cache") => call[p].cache.ddb

(***************************************************************************)
(* C22: a commitAnonymousEvent call that the store refuses, under any      *)
(* interleaving with other commitAnonymousEvent and commitEvent calls, is  *)
(* refused as DuplicateEvent and never as PredecessorMissing.  As stated.  *)
(***************************************************************************)
C22_OnlyDuplicate ==
    \A p \in Procs :
        (/\ call[p].fn = "commitAnonymousEvent"
         /\ HasReturned(p)
         /\ ret[p].status = "throw"
         /\ Evaluated(ret[p]))
            => ret[p].logs = {"DuplicateEvent"}

(***************************************************************************)
(* C23: an updateCache(identifier, view) changes no cache entry other than *)
(* the one keyed by (the cache's namespace, identifier), for every view,   *)
(* one that carries fields named namespace or viewName included.           *)
(* As stated.                                                              *)
(***************************************************************************)
C23_Step ==
    \A p \in CacheProcs :
        PutAnswered(p)
            => \A k \in CacheKeys \ {<<call[p].cache.namespace, call[p].identifier>>} :
                  ViewsAt(viewsTable', k[1], k[2]) = ViewsAt(viewsTable, k[1], k[2])

\* C23: every step of every behaviour is such a step.
C23_PutFrame == [][C23_Step]_vars

====
